---- MODULE Spec2Model ----
(***************************************************************************)
(* State-machine model of the seizure detector (backend/detection.py) and  *)
(* of the alert path of the serving layer (backend/app.py).                *)
(*                                                                         *)
(* Time is counted in whole seconds of time.time().  Confidences are the   *)
(* exact decimal values of the source, kept as integers over the common    *)
(* denominator ConfScale (ConfScale stands for 1.0); binary64 rounding is  *)
(* not represented.  Keypoints carry x and y only: z and visibility are    *)
(* never read by detection.py.                                             *)
(***************************************************************************)
EXTENDS Integers, Sequences, FiniteSets, TLC

VARIABLES clock, det, call, analysis, delivered, run, alerted_at,
          alert_count, event_log, emitted, is_monitoring, clients

vars == <<clock, det, call, analysis, delivered, run, alerted_at,
          alert_count, event_log, emitted, is_monitoring, clients>>

backend_vars == <<alert_count, event_log, emitted, is_monitoring>>

(***************************************************************************)
(* Bounds of the model.                                                    *)
(***************************************************************************)
\* first value of time.time() seen by the model (an epoch time is far above alert_cooldown)
StartTime == 5
\* number of seconds of wall-clock time the model follows
Horizon == 12
\* most seconds the clock advances between two reads inside one call
MaxDrift == 1

MaxTime == StartTime + Horizon

\* number of seconds the specification of the serving layer follows
BackendHorizon == 6

\* number of seconds the specification of the lasting episode follows
FrozenHorizon == 17

\* number of clients connected to the server
NumClients == 2

\* a velocity map handed to the pattern matcher on its own has entries for
\* some of the first MaxParts important parts, each a multiple of 40 pixels
\* up to 40 * MaxSteps
MaxParts == 4
MaxSteps == 5

\* Python's None, where a frame or a dict is expected and where a time is expected
None == "None"
NoTime == 0 - 1

(***************************************************************************)
(* Configuration of SeizureDetector.__init__                               *)
(***************************************************************************)
ConfScale == 10 * 400 * 420

Tenths(k) == k * (ConfScale \div 10)

fall_threshold == Tenths(6)
rapid_movement_threshold == 50
immobility_threshold == 5
immobility_duration_threshold == 10
alert_cooldown == 5

\* (variant: the velocity threshold of myoclonic lies below that of tonic_clonic)
seizure_patterns_low_myoclonic ==
  << [name |-> "tonic_clonic",
      description |-> "Tonic-clonic seizure with rhythmic movements",
      velocity_threshold |-> 80, pattern_threshold |-> Tenths(7)],
     [name |-> "myoclonic",
      description |-> "Myoclonic seizure with sudden jerks",
      velocity_threshold |-> 50, pattern_threshold |-> Tenths(6)],
     [name |-> "atonic",
      description |-> "Atonic seizure with sudden loss of muscle tone",
      velocity_threshold |-> 20, pattern_threshold |-> Tenths(8)] >>

seizure_patterns ==
  << [name |-> "tonic_clonic",
      description |-> "Tonic-clonic seizure with rhythmic movements",
      velocity_threshold |-> 80, pattern_threshold |-> Tenths(7)],
     [name |-> "myoclonic",
      description |-> "Myoclonic seizure with sudden jerks",
      velocity_threshold |-> 100, pattern_threshold |-> Tenths(6)],
     [name |-> "atonic",
      description |-> "Atonic seizure with sudden loss of muscle tone",
      velocity_threshold |-> 20, pattern_threshold |-> Tenths(8)] >>

important_parts == << "left_wrist", "right_wrist", "left_ankle", "right_ankle",
                      "nose", "left_shoulder", "right_shoulder" >>

required_parts == {"nose", "left_hip", "right_hip", "left_ankle", "right_ankle"}

keypoint_names == {"nose", "left_eye", "right_eye", "left_ear", "right_ear",
                   "left_shoulder", "right_shoulder", "left_elbow", "right_elbow",
                   "left_wrist", "right_wrist", "left_hip", "right_hip",
                   "left_knee", "right_knee", "left_ankle", "right_ankle"}

(***************************************************************************)
(* Keypoint frames fed to the detector.  Every part moves along one fixed  *)
(* line (the right shoulder along direction (3,4), the others along an     *)
(* axis), so every displacement np.sqrt returns is a whole number.         *)
(***************************************************************************)
Pt(px, py) == [x |-> px, y |-> py]

MkFrame(noseY, ankleY, lw, rw, ls, rs, drift) ==
  [p \in keypoint_names |->
     CASE p = "nose"           -> Pt(320, noseY)
       [] p = "left_hip"       -> Pt(300, 290)
       [] p = "right_hip"      -> Pt(340, 310)
       [] p = "left_ankle"     -> Pt(300, ankleY)
       [] p = "right_ankle"    -> Pt(340, ankleY)
       [] p = "left_wrist"     -> Pt(250 + lw, 300)
       [] p = "right_wrist"    -> Pt(390 + rw, 300)
       [] p = "left_shoulder"  -> Pt(290 + ls, 180)
       [] p = "right_shoulder" -> Pt(350 + 3 * rs, 180 + 4 * rs)
       [] p = "left_knee"      -> Pt(300 + 8 * drift, 400)
       [] p = "right_knee"     -> Pt(340 + 8 * drift, 400)
       [] p = "left_elbow"     -> Pt(260 + 8 * drift, 240)
       [] p = "right_elbow"    -> Pt(380 + 8 * drift, 240)
       [] p = "left_eye"       -> Pt(315 + 8 * drift, 90)
       [] p = "right_eye"      -> Pt(325 + 8 * drift, 90)
       [] p = "left_ear"       -> Pt(310 + 8 * drift, 95)
       [] p = "right_ear"      -> Pt(330 + 8 * drift, 95) ]

Restrict(f, S) == [p \in S |-> f[p]]

\* standing, at rest
FrameUpright == MkFrame(100, 500, 0, 0, 0, 0, 0)
\* standing, the passive parts 8 and 16 pixels to the side
FrameDrift1 == MkFrame(100, 500, 0, 0, 0, 0, 1)
FrameDrift2 == MkFrame(100, 500, 0, 0, 0, 0, 2)
\* standing, left wrist 60 pixels away
FrameTwitch == MkFrame(100, 500, 60, 0, 0, 0, 0)
\* standing, right shoulder exactly 50 pixels away
FrameEdge == MkFrame(100, 500, 0, 0, 0, 10, 0)
\* standing, three arm parts 60 pixels away
FrameWave == MkFrame(100, 500, 60, 60, 60, 0, 0)
\* standing, four arm parts 120 pixels away
FrameFlail == MkFrame(100, 500, 120, 120, 120, 24, 0)
\* body_width = 1.5 * body_height exactly
FrameBoundary == MkFrame(100, 600, 0, 0, 0, 0, 0)
\* horizontal, head above the hips
FrameLying == MkFrame(280, 500, 0, 0, 0, 0, 0)
\* horizontal, head below the hips
FrameCollapsed == MkFrame(320, 500, 0, 0, 0, 0, 0)
\* head below the hips, not horizontal
FrameBent == MkFrame(400, 400, 0, 0, 0, 0, 0)
\* collapsed with the four arm parts 120 pixels away
FrameCollapsedFlail == MkFrame(320, 500, 120, 120, 120, 24, 0)
\* pose with the left hip not located
FrameNoHip == Restrict(FrameUpright, keypoint_names \ {"left_hip"})
\* poses with a single part located
FrameNoseOnly == Restrict(FrameLying, {"nose"})
FrameKneeOnly == Restrict(FrameUpright, {"left_knee"})
\* pose with the two wrists located, the left one 160 pixels away
FrameArmsOnly == Restrict(MkFrame(100, 500, 160, 0, 0, 0, 0),
                          {"left_wrist", "right_wrist"})

\* The state names a frame; Keypoints gives the dict of the named frame.
\* frames extract_keypoints can return: all seventeen parts
FullFrames == {"upright", "drift1", "drift2", "twitch", "edge", "wave", "flail",
               "boundary", "lying", "collapsed", "bent", "collapsed_flail"}

\* frames a direct caller of analyze_movement can pass
Frames == FullFrames \cup {"no_hip", "nose_only", "knee_only", "arms_only"}

\* the frames of the streaming specification
StreamFrames == {"upright", "drift1", "drift2", "twitch", "collapsed"}

Keypoints(frame) ==
  CASE frame = "upright"         -> FrameUpright
    [] frame = "drift1"          -> FrameDrift1
    [] frame = "drift2"          -> FrameDrift2
    [] frame = "twitch"          -> FrameTwitch
    [] frame = "edge"            -> FrameEdge
    [] frame = "wave"            -> FrameWave
    [] frame = "flail"           -> FrameFlail
    [] frame = "boundary"        -> FrameBoundary
    [] frame = "lying"           -> FrameLying
    [] frame = "collapsed"       -> FrameCollapsed
    [] frame = "bent"            -> FrameBent
    [] frame = "collapsed_flail" -> FrameCollapsedFlail
    [] frame = "no_hip"          -> FrameNoHip
    [] frame = "nose_only"       -> FrameNoseOnly
    [] frame = "knee_only"       -> FrameKneeOnly
    [] frame = "arms_only"       -> FrameArmsOnly

\* keypoints_data without the 'keypoints' key
NoKeypoints == "NoKeypoints"

(***************************************************************************)
(* Arithmetic helpers.                                                     *)
(***************************************************************************)
Abs(a) == IF a < 0 THEN -a ELSE a

Min(a, b) == IF a <= b THEN a ELSE b

\* np.sqrt on the perfect squares the frames above produce
Sqrt(n) == CHOOSE r \in 0..n : r * r = n

Distance(curr_pos, prev_pos) ==
  Sqrt((curr_pos.x - prev_pos.x) * (curr_pos.x - prev_pos.x)
       + (curr_pos.y - prev_pos.y) * (curr_pos.y - prev_pos.y))

RECURSIVE SumOver(_, _)
SumOver(f, S) ==
  IF S = {} THEN 0
  ELSE LET p == CHOOSE q \in S : TRUE IN f[p] + SumOver(f, S \ {p})

\* (variant: the last item of greatest confidence)
RECURSIVE MaxByConfidenceLast(_, _)
MaxByConfidenceLast(best, rest) ==
  IF rest = << >> THEN best
  ELSE MaxByConfidenceLast(IF Head(rest).confidence >= best.confidence THEN Head(rest)
                           ELSE best,
                           Tail(rest))

\* max(items, key=lambda x: x['confidence']): the first item of greatest confidence
RECURSIVE MaxByConfidence(_, _)
MaxByConfidence(best, rest) ==
  IF rest = << >> THEN best
  ELSE MaxByConfidence(IF Head(rest).confidence > best.confidence THEN Head(rest) ELSE best,
                       Tail(rest))

(***************************************************************************)
(* SeizureDetector: the analyzers.                                         *)
(***************************************************************************)
\* (variant: the no-alert decision names no type)
_create_no_alert_result_untyped ==
  [alert |-> FALSE, type |-> "", confidence |-> 0,
   description |-> "No abnormal movements detected"]

_create_no_alert_result ==
  [alert |-> FALSE, type |-> "none", confidence |-> 0,
   description |-> "No abnormal movements detected"]

\* the velocity map as a function on the parts it has an entry for
\* (prev_frame is self.prev_keypoints: None or the name of a frame)
EmptyMap == [p \in {} |-> 0]

\* the loop over important_parts, for a previous frame that is not None
VelocitiesBetween(prev_keypoints, keypoints) ==
  [p \in {q \in DOMAIN keypoints \cap DOMAIN prev_keypoints :
            \E i \in 1..Len(important_parts) : important_parts[i] = q}
     |-> Distance(keypoints[p], prev_keypoints[p])]

_calculate_velocities(prev_frame, keypoints) ==
  IF prev_frame = None THEN EmptyMap
  ELSE VelocitiesBetween(Keypoints(prev_frame), keypoints)

\* the keys of the velocity map in the order the dict holds them
VelocityOrder(velocities) ==
  SelectSeq(important_parts, LAMBDA p : p \in DOMAIN velocities)

\* (variant: a confidence equal to the threshold counts as a fall)
FallDetectedAtThreshold(fall_confidence) == fall_confidence >= fall_threshold

\* 'detected': fall_confidence > self.fall_threshold
FallDetected(fall_confidence) == fall_confidence > fall_threshold

\* positions are kept doubled, so that the means of two pixel rows stay whole
_detect_fall(keypoints) ==
  IF ~(required_parts \subseteq DOMAIN keypoints)
  THEN [detected |-> FALSE, confidence |-> 0, reason |-> "Missing keypoints"]
  ELSE LET nose_y2 == 2 * keypoints["nose"].y
           hip_y2 == keypoints["left_hip"].y + keypoints["right_hip"].y
           ankle_y2 == keypoints["left_ankle"].y + keypoints["right_ankle"].y
           body_height2 == Abs(hip_y2 - nose_y2)
           body_width2 == Abs(ankle_y2 - hip_y2)
           is_horizontal == 2 * body_width2 > 3 * body_height2
           is_low_position == nose_y2 > hip_y2
           fall_confidence == IF is_horizontal /\ is_low_position THEN Tenths(8)
                              ELSE IF is_horizontal THEN Tenths(6)
                              ELSE IF is_low_position THEN Tenths(4)
                              ELSE 0
           reason == IF is_horizontal /\ is_low_position
                       THEN "Body in horizontal position with head below hips"
                     ELSE IF is_horizontal THEN "Body in horizontal position"
                     ELSE IF is_low_position THEN "Head position below hips"
                     ELSE ""
       IN [detected |-> FallDetected(fall_confidence),
           confidence |-> fall_confidence,
           reason |-> reason]

\* (variant: a velocity equal to the threshold counts as rapid)
IsRapidAtThreshold(velocity) == velocity >= rapid_movement_threshold

\* if velocity > self.rapid_movement_threshold
IsRapid(velocity) == velocity > rapid_movement_threshold

_detect_rapid_movements(velocities) ==
  LET order == VelocityOrder(velocities)
      flagged == SelectSeq(order, LAMBDA p : IsRapid(velocities[p]))
      rapid_movements ==
        [i \in 1..Len(flagged) |->
           [part |-> flagged[i],
            velocity |-> velocities[flagged[i]],
            severity |-> IF velocities[flagged[i]] > rapid_movement_threshold * 2
                         THEN "high" ELSE "medium"]]
  IN IF Len(rapid_movements) > 0
     THEN [detected |-> TRUE,
           confidence |-> Min(Tenths(9), Len(rapid_movements) * Tenths(3)),
           movements |-> rapid_movements,
           reason |-> << "Detected", Len(rapid_movements), "rapid movements" >>]
     ELSE [detected |-> FALSE, confidence |-> 0, movements |-> << >>,
           reason |-> "No rapid movements detected"]

_calculate_pattern_consistency(velocities, pattern_config) ==
  LET n == Cardinality(DOMAIN velocities)
      thr == pattern_config.velocity_threshold
  IN IF n = 0 THEN 0
     ELSE LET high == Cardinality({p \in DOMAIN velocities : velocities[p] > thr})
              total == SumOver(velocities, DOMAIN velocities)
              \* high_velocity_ratio * 0.6
              ratio_part == 6 * high * (ConfScale \div (10 * n))
              \* min(velocity_ratio, 1.0) * 0.4
              velocity_part == 4 * Min(total, n * thr) * (ConfScale \div (10 * n * thr))
          IN Min(ratio_part + velocity_part, ConfScale)

\* (variant: a consistency equal to the threshold matches the pattern)
PatternMatchedAtThreshold(pattern_consistency, pattern_config) ==
  pattern_consistency >= pattern_config.pattern_threshold

PatternMatched(pattern_consistency, pattern_config) ==
  pattern_consistency > pattern_config.pattern_threshold

_analyze_seizure_pattern(velocities, pattern_config) ==
  IF Cardinality(DOMAIN velocities) > 0
     /\ PatternMatched(_calculate_pattern_consistency(velocities, pattern_config),
                       pattern_config)
  THEN [detected |-> TRUE,
        confidence |-> _calculate_pattern_consistency(velocities, pattern_config),
        pattern_type |-> pattern_config.description,
        description |-> pattern_config.description]
  ELSE [detected |-> FALSE, confidence |-> 0,
        pattern_type |-> pattern_config.description]

_detect_seizure_patterns(velocities) ==
  LET results == [i \in 1..Len(seizure_patterns) |->
                    _analyze_seizure_pattern(velocities, seizure_patterns[i])]
      detected_patterns == SelectSeq(results, LAMBDA x : x.detected)
  IN IF detected_patterns # << >>
     THEN LET best_pattern == MaxByConfidence(Head(detected_patterns), Tail(detected_patterns))
          IN [detected |-> TRUE,
              confidence |-> best_pattern.confidence,
              pattern_type |-> best_pattern.pattern_type,
              description |-> best_pattern.description,
              reason |-> << "Detected", best_pattern.pattern_type, "seizure pattern" >>]
     ELSE [detected |-> FALSE, confidence |-> 0,
           reason |-> "No seizure patterns detected"]

\* the loop of _detect_immobility over the parts present in both frames
CommonParts(keypoints, prev_keypoints) == DOMAIN keypoints \cap DOMAIN prev_keypoints

TotalMovement(keypoints, prev_keypoints) ==
  SumOver([p \in CommonParts(keypoints, prev_keypoints) |->
             Distance(keypoints[p], prev_keypoints[p])],
          CommonParts(keypoints, prev_keypoints))

\* The analyzers tabulated over the named frames: the first index is
\* self.prev_keypoints, the second the frame passed in.
VelocityTable ==
  [prev \in Frames \cup {None} |->
     [frame \in Frames |-> _calculate_velocities(prev, Keypoints(frame))]]

FallTable == [frame \in Frames |-> _detect_fall(Keypoints(frame))]

RapidTable ==
  [prev \in Frames \cup {None} |->
     [frame \in Frames |-> _detect_rapid_movements(VelocityTable[prev][frame])]]

PatternTable ==
  [prev \in Frames \cup {None} |->
     [frame \in Frames |-> _detect_seizure_patterns(VelocityTable[prev][frame])]]

Movement(keypoints, prev_keypoints) ==
  [movement_count |-> Cardinality(CommonParts(keypoints, prev_keypoints)),
   total_movement |-> TotalMovement(keypoints, prev_keypoints)]

MovementTable ==
  [prev \in Frames |->
     [frame \in Frames |-> Movement(Keypoints(frame), Keypoints(prev))]]

\* (variant: an episode of exactly the threshold counts as long enough)
DurationReached(elapsed) == elapsed >= immobility_duration_threshold

\* (variant: one-shot, only the second in which the threshold is crossed counts)
DurationCrossed(elapsed) == elapsed = immobility_duration_threshold + 1

\* if time.time() - self.immobility_start_time > self.immobility_duration_threshold
DurationExceeded(elapsed) == elapsed > immobility_duration_threshold

NormalMovement ==
  [detected |-> FALSE, confidence |-> 0, reason |-> "Normal movement detected"]

\* the part of _detect_immobility after the loop: movement holds its
\* movement_count and total_movement.
\* self is the detector record; r holds the values the successive time.time()
\* calls return.  The result carries the timer fields as the method leaves them
\* the clock value compared against the duration threshold (checked_at) and
\* the last clock value the method read (NoTime when it read none).
\* frame names the keypoints passed in.
AverageMovementChecked(self, r, movement) ==
  IF movement.movement_count > 0
  THEN IF movement.total_movement < immobility_threshold * movement.movement_count
       THEN LET start == IF ~self.immobility_detected THEN r.t209
                         ELSE self.immobility_start_time
            IN IF DurationExceeded(r.t213 - start)
               THEN [result |-> [detected |-> TRUE, confidence |-> Tenths(8),
                                 reason |-> << "Freezing episode detected (duration)",
                                               r.t217 - start >>,
                                 duration |-> r.t218 - start],
                     immobility_start_time |-> start,
                     immobility_detected |-> TRUE,
                     checked_at |-> r.t213,
                     last_read |-> r.t218]
               ELSE [result |-> NormalMovement,
                     immobility_start_time |-> start,
                     immobility_detected |-> TRUE,
                     checked_at |-> r.t213,
                     last_read |-> r.t213]
       ELSE [result |-> NormalMovement,
             immobility_start_time |-> NoTime,
             immobility_detected |-> FALSE,
             checked_at |-> NoTime,
             last_read |-> NoTime]
  ELSE [result |-> NormalMovement,
        immobility_start_time |-> self.immobility_start_time,
        immobility_detected |-> self.immobility_detected,
        checked_at |-> NoTime,
        last_read |-> NoTime]

\* (variant: the first frame already starts the immobility timer)
_detect_immobility_from_first_frame(self, frame, r) ==
  IF self.prev_keypoints = None
  THEN [result |-> [detected |-> FALSE, confidence |-> 0, reason |-> "No previous frame"],
        immobility_start_time |-> r.t209,
        immobility_detected |-> TRUE,
        checked_at |-> NoTime,
        last_read |-> r.t209]
  ELSE AverageMovementChecked(self, r, MovementTable[self.prev_keypoints][frame])

_detect_immobility(self, frame, r) ==
  IF self.prev_keypoints = None
  THEN [result |-> [detected |-> FALSE, confidence |-> 0, reason |-> "No previous frame"],
        immobility_start_time |-> self.immobility_start_time,
        immobility_detected |-> self.immobility_detected,
        checked_at |-> NoTime,
        last_read |-> NoTime]
  ELSE AverageMovementChecked(self, r, MovementTable[self.prev_keypoints][frame])

\* the keys of detection_results in the order analyze_movement builds the dict
detection_types == << "fall", "rapid_movements", "immobility", "seizure_patterns" >>

_determine_alert(detection_results) ==
  LET all == [i \in 1..Len(detection_types) |->
                [type |-> detection_types[i],
                 confidence |-> detection_results[detection_types[i]].confidence,
                 description |-> detection_results[detection_types[i]].reason,
                 details |-> detection_results[detection_types[i]]]]
      alerts == SelectSeq(all, LAMBDA a : a.details.detected)
  IN IF alerts # << >>
     THEN LET best_alert == MaxByConfidence(Head(alerts), Tail(alerts))
          IN [alert |-> TRUE,
              type |-> best_alert.type,
              confidence |-> best_alert.confidence,
              description |-> best_alert.description,
              details |-> best_alert.details]
     ELSE _create_no_alert_result

(***************************************************************************)
(* SeizureDetector: state and public methods.                              *)
(***************************************************************************)
\* deque(maxlen=30): the two buffers are appended to and cleared but never
\* read, so each is kept as whether it holds anything
EmptyDeque == "empty"

DequeAppend(buffer) == "nonempty"

\* SeizureDetector.__init__: the state-tracking fields
NewDetector ==
  [prev_keypoints |-> None,
   immobility_start_time |-> NoTime,
   immobility_detected |-> FALSE,
   last_alert_time |-> 0,
   movement_history |-> EmptyDeque,
   velocity_history |-> EmptyDeque]

\* (variant: the gate stays shut at exactly alert_cooldown)
InCooldownInclusive(self, current_time) ==
  current_time - self.last_alert_time <= alert_cooldown

\* the cooldown check of analyze_movement
InCooldown(self, current_time) == current_time - self.last_alert_time < alert_cooldown

AbsentPose(keypoints_data) == keypoints_data = None \/ keypoints_data = NoKeypoints

\* (variant: an early return forgets the previous frame)
EarlyReturnForgetsFrame(self, current_time) ==
  [self |-> [self EXCEPT !.prev_keypoints = None],
   result |-> _create_no_alert_result, evaluated |-> FALSE,
   current_time |-> current_time, velocities |-> EmptyMap,
   detection_results |-> EmptyMap, checked_at |-> NoTime, now |-> current_time]

\* (variant: an early return drops the immobility episode in progress)
EarlyReturnClearsTimer(self, current_time) ==
  [self |-> [self EXCEPT !.immobility_detected = FALSE,
                         !.immobility_start_time = NoTime],
   result |-> _create_no_alert_result, evaluated |-> FALSE,
   current_time |-> current_time, velocities |-> EmptyMap,
   detection_results |-> EmptyMap, checked_at |-> NoTime, now |-> current_time]

\* return self._create_no_alert_result(): the two early returns of
\* analyze_movement, which leave every field of the detector as it is
EarlyReturn(self, current_time) ==
  [self |-> self, result |-> _create_no_alert_result, evaluated |-> FALSE,
   current_time |-> current_time, velocities |-> EmptyMap,
   detection_results |-> EmptyMap, checked_at |-> NoTime, now |-> current_time]

\* analyze_movement is written as its three stages: the analyses of lines
\* 70-83 (PerformAnalyses, handed the results of the four analyzers), the
\* decision of line 86, and the state update and return of lines 88-94
\* (UpdateState).
\* analyze_movement(self, keypoints_data) with the clock values r.  The result
\* carries the detector after the call (self), the returned dict (result),
\* whether the analyzers ran (evaluated) and what they computed (velocities,
\* detection_results), the time sample of line 64 and the clock at the return
\* (current_time, now; NoTime when the clock was not read).
UpdateState(self, keypoints_data, current_time, velocities, imm, detection_results, alert_result) ==
  [self |-> [prev_keypoints |-> keypoints_data,
             immobility_start_time |-> imm.immobility_start_time,
             immobility_detected |-> imm.immobility_detected,
             last_alert_time |-> IF alert_result.alert THEN current_time
                                 ELSE self.last_alert_time,
             movement_history |-> DequeAppend(self.movement_history),
             velocity_history |-> DequeAppend(self.velocity_history)],
   result |-> alert_result,
   evaluated |-> TRUE,
   current_time |-> current_time,
   velocities |-> velocities,
   detection_results |-> detection_results,
   checked_at |-> imm.checked_at,
   now |-> IF imm.last_read = NoTime THEN current_time ELSE imm.last_read]

DetectionResults(fall, rapid_movements, immobility, patterns) ==
  [fall |-> fall, rapid_movements |-> rapid_movements,
   immobility |-> immobility, seizure_patterns |-> patterns]

PerformAnalyses(self, keypoints_data, current_time, velocities, fall, rapid_movements, imm, patterns) ==
  UpdateState(self, keypoints_data, current_time, velocities, imm,
              DetectionResults(fall, rapid_movements, imm.result, patterns),
              _determine_alert(DetectionResults(fall, rapid_movements,
                                                imm.result, patterns)))

analyze_movement(self, keypoints_data, r) ==
  IF AbsentPose(keypoints_data)
  THEN EarlyReturn(self, NoTime)
  ELSE IF InCooldown(self, r.t64)
  THEN EarlyReturn(self, r.t64)
  ELSE PerformAnalyses(self, keypoints_data, r.t64,
                       VelocityTable[self.prev_keypoints][keypoints_data],
                       FallTable[keypoints_data],
                       RapidTable[self.prev_keypoints][keypoints_data],
                       _detect_immobility(self, keypoints_data, r),
                       PatternTable[self.prev_keypoints][keypoints_data])

\* (variant: the reset leaves the time of the last alert as it is)
reset_state_keeps_alert_time(self) ==
  [prev_keypoints |-> None,
   immobility_start_time |-> NoTime,
   immobility_detected |-> FALSE,
   last_alert_time |-> self.last_alert_time,
   movement_history |-> EmptyDeque,
   velocity_history |-> EmptyDeque]

\* (variant: the reset leaves the immobility flag as it is)
reset_state_keeps_flag(self) ==
  [prev_keypoints |-> None,
   immobility_start_time |-> NoTime,
   immobility_detected |-> self.immobility_detected,
   last_alert_time |-> 0,
   movement_history |-> EmptyDeque,
   velocity_history |-> EmptyDeque]

reset_state(self) ==
  [prev_keypoints |-> None,
   immobility_start_time |-> NoTime,
   immobility_detected |-> FALSE,
   last_alert_time |-> 0,
   movement_history |-> EmptyDeque,
   velocity_history |-> EmptyDeque]

(***************************************************************************)
(* SeizureDetectionBackend (app.py): the alert path of process_image.      *)
(***************************************************************************)
\* the dict process_image returns when no pose was found or an exception was caught
fallback_result(type, confidence, seizure_detected) ==
  [alert |-> seizure_detected,
   type |-> type,
   confidence |-> IF seizure_detected THEN confidence ELSE 0,
   description |-> IF seizure_detected THEN "Seizure detected" ELSE "No seizure detected"]

\* alert_data of _handle_alert; timestamp is the value of datetime.now()
alert_data_of(detection_result, timestamp) ==
  [timestamp |-> timestamp,
   alert_type |-> detection_result.type,
   confidence |-> detection_result.confidence,
   description |-> detection_result.description]

\* (variant: the line leaves the description out)
log_entry_without_description(alert_data) ==
  << alert_data.timestamp, alert_data.alert_type >>

\* the line _log_alert writes: "<timestamp> - <alert_type> - <description>"
log_entry_of(alert_data) ==
  << alert_data.timestamp, alert_data.alert_type, alert_data.description >>

(***************************************************************************)
(* The values successive clock reads of one call can return: the sample of *)
(* line 64 is t64, the reads of _detect_immobility follow it in order, and *)
(* t100 is datetime.now() in _handle_alert.                                *)
(***************************************************************************)
Reads(t) ==
  LET T == t..Min(t + MaxDrift, MaxTime)
  IN {r \in [t64 : {t}, t209 : T, t213 : T, t217 : T, t218 : T, t100 : T] :
        r.t209 <= r.t213 /\ r.t213 <= r.t217 /\ r.t217 <= r.t218 /\ r.t218 <= r.t100}

\* the reads of a call into the detector alone (no datetime.now())
DetectorReads(t) == {r \in Reads(t) : r.t100 = r.t218}

\* a clock that does not move during the call
SteadyReads(t) == [t64 |-> t, t209 |-> t, t213 |-> t, t217 |-> t, t218 |-> t, t100 |-> t]

(***************************************************************************)
(* Observers of the run: they record what was passed in and returned, and  *)
(* are read by the properties only.                                        *)
(*   call       the last operation: its input, the time sample of line 64, *)
(*              whether the analyzers ran, the types they reported as      *)
(*              detected, the immobility result, the returned dict, and    *)
(*              whether the detector was as constructed when the operation *)
(*              began (from_new); for a call of process_image that handled *)
(*              an alert, whether the log file and the socket accepted it  *)
(*              (sinks)                                                    *)
(*   analysis   the velocity map and the four results of the last call     *)
(*              (recorded by the frame-by-frame specification)             *)
(*   delivered  the last present frame passed in                           *)
(*   run        whether every frame after the first since construction or  *)
(*              reset_state moved less than immobility_threshold on        *)
(*              average against the frame before it, at a later time; for  *)
(*              such a run, whether the clock has moved on since the time  *)
(*              sample of its last frame (aged)                            *)
(*   alerted_at the time sample of the last call that returned alert=true  *)
(*              since construction or reset_state                          *)
(*   clients    the client whose request was handled last and the route it *)
(*              took (sender, via), and for every connected client the     *)
(*              state a detector fed that client's frames alone would be   *)
(*              in (own)                                                   *)
(***************************************************************************)
NoAnalysis == [velocities |-> EmptyMap, detection_results |-> EmptyMap]

AnalysisOf(out) ==
  [velocities |-> out.velocities, detection_results |-> out.detection_results]

DetectedTypes(out) ==
  IF out.evaluated
  THEN {t \in {"fall", "rapid_movements", "immobility", "seizure_patterns"} :
          out.detection_results[t].detected}
  ELSE {}

\* whether the write to event_log.txt and socketio.emit succeeded
WorkingSinks == [log |-> TRUE, emit |-> TRUE]

NoCall(op) ==
  [op |-> op, keypoints_data |-> None, evaluated |-> FALSE, current_time |-> NoTime,
   checked_at |-> NoTime, detected |-> {}, immobility |-> NormalMovement,
   result |-> _create_no_alert_result, from_new |-> det = NewDetector,
   sinks |-> WorkingSinks]

CallOf(op, keypoints_data, out, result) ==
  [op |-> op, keypoints_data |-> keypoints_data, evaluated |-> out.evaluated,
   current_time |-> out.current_time, checked_at |-> out.checked_at,
   detected |-> DetectedTypes(out),
   immobility |-> IF out.evaluated THEN out.detection_results.immobility
                  ELSE NormalMovement,
   result |-> result, from_new |-> det = NewDetector, sinks |-> WorkingSinks]

\* request.sid of the connected clients
Clients == 1..NumClients

NoClients == [sender |-> None, via |-> None, own |-> [c \in Clients |-> NewDetector]]

FreshRun == [still |-> TRUE, aged |-> FALSE]

BrokenRun == [still |-> FALSE, aged |-> FALSE]

\* the average displacement of frame b against frame a is below immobility_threshold
IsStill(m) ==
  m.movement_count > 0 /\ m.total_movement < immobility_threshold * m.movement_count

StillAgainst(a, b) == IsStill(MovementTable[a][b])

\* the average displacement of frame b against frame a is at or above immobility_threshold
IsMobile(m) ==
  m.movement_count > 0 /\ m.total_movement >= immobility_threshold * m.movement_count

MobileAgainst(a, b) == IsMobile(MovementTable[a][b])

ObserveDelivered(keypoints_data) ==
  IF AbsentPose(keypoints_data) THEN delivered ELSE keypoints_data

\* t is the time sample of the call and now the clock when it returns
ObserveRun(keypoints_data, t, now) ==
  IF AbsentPose(keypoints_data) \/ ~run.still THEN run
  ELSE IF delivered = None \/ (StillAgainst(delivered, keypoints_data) /\ run.aged)
       THEN [still |-> TRUE, aged |-> now > t]
       ELSE BrokenRun

ObserveTick == IF run.still /\ delivered # None THEN [run EXCEPT !.aged = TRUE] ELSE run

ObserveAlert(result, t) == IF result.alert THEN t ELSE alerted_at

(***************************************************************************)
(* Operations.                                                             *)
(***************************************************************************)
Init ==
  /\ clock = StartTime
  /\ det = NewDetector
  /\ call = NoCall("init")
  /\ analysis = NoAnalysis
  /\ delivered = None
  /\ run = FreshRun
  /\ alerted_at = NoTime
  /\ alert_count = 0
  /\ event_log = << >>
  /\ emitted = << >>
  /\ is_monitoring = FALSE
  /\ clients = NoClients

\* a second of wall-clock time passes between two calls, up to the time last
TickUntil(last) ==
  /\ clock < last
  /\ clock' = clock + 1
  /\ call' = NoCall("tick")
  /\ run' = ObserveTick
  /\ UNCHANGED <<det, analysis, delivered, alerted_at, backend_vars, clients>>

Tick == TickUntil(MaxTime)

\* the call returns out: the detector and the observers take their new values
\* (recorded says whether the analysis is kept for the properties)
Returns(keypoints_data, r, out, recorded) ==
  /\ det' = out.self
  /\ clock' = IF out.now = NoTime THEN clock ELSE out.now
  /\ call' = CallOf("analyze_movement", keypoints_data, out, out.result)
  /\ analysis' = IF recorded THEN AnalysisOf(out) ELSE NoAnalysis
  /\ delivered' = ObserveDelivered(keypoints_data)
  /\ run' = ObserveRun(keypoints_data, r.t64, out.now)
  /\ alerted_at' = ObserveAlert(out.result, r.t64)
  /\ UNCHANGED <<backend_vars, clients>>

\* detector.analyze_movement(keypoints_data), the clock reading r
Analyze(keypoints_data, r, recorded) ==
  /\ r.t64 >= clock
  /\ Returns(keypoints_data, r, analyze_movement(det, keypoints_data, r), recorded)

\* a caller of the detector passes a pose, or no pose, as frames stream in
AnalyzeMovement(keypoints_data, r) == Analyze(keypoints_data, r, FALSE)

\* a caller of the detector passes one frame alert_cooldown seconds after the
\* frame before it, so that the cooldown gate is open
AnalyzeFrame(frame) ==
  LET t == IF delivered = None THEN clock ELSE clock + alert_cooldown
  IN /\ t <= MaxTime
     /\ Analyze(frame, SteadyReads(t), TRUE)

\* a caller invokes detector.reset_state()
ResetState ==
  /\ det' = reset_state(det)
  /\ call' = NoCall("reset_state")
  /\ delivered' = None
  /\ run' = FreshRun
  /\ alerted_at' = NoTime
  /\ UNCHANGED <<clock, analysis, backend_vars, clients>>

\* backend.process_image(image_data).  image is what decoding and pose
\* extraction make of image_data: the name of a full frame, None when no pose
\* is found, "undecodable" when decoding raises.  log_ok and emit_ok say
\* whether the write to event_log.txt and socketio.emit succeed;
\* seizure_detected is the draw of random.choice.  HandleResult is the branch
\* of lines 67-74 with _handle_alert, out being what analyze_movement returned.
\* (variant: _log_alert lets the failure of the write escape)
LogAlertRaisesOnFailure(log_ok) == ~log_ok

\* _log_alert wraps the write in try/except and logs the failure: it never raises
LogAlertRaises(log_ok) == FALSE

HandleResult(image, r, log_ok, emit_ok, seizure_detected, out) ==
  LET alert_data == alert_data_of(out.result, r.t100)
      \* _handle_alert runs, and raises into the except clause of process_image
      handled == out.result.alert
      raised == handled /\ (LogAlertRaises(log_ok) \/ ~emit_ok)
      returned == IF raised
                  THEN fallback_result("error_fallback", Tenths(3), seizure_detected)
                  ELSE out.result
  IN /\ det' = out.self
     /\ clock' = IF handled THEN r.t100 ELSE out.now
     /\ call' = [CallOf("process_image", image, out, returned) EXCEPT
                   !.sinks = IF handled THEN [log |-> log_ok, emit |-> emit_ok]
                             ELSE WorkingSinks]
     /\ delivered' = image
     /\ run' = ObserveRun(image, r.t64, IF handled THEN r.t100 ELSE out.now)
     /\ alerted_at' = ObserveAlert(out.result, r.t64)
     /\ alert_count' = IF handled THEN alert_count + 1 ELSE alert_count
     /\ event_log' = IF handled /\ log_ok
                     THEN Append(event_log, log_entry_of(alert_data))
                     ELSE event_log
     /\ emitted' = IF handled /\ ~LogAlertRaises(log_ok) /\ emit_ok
                   THEN Append(emitted, alert_data)
                   ELSE emitted
     /\ UNCHANGED is_monitoring

process_image(image, r, log_ok, emit_ok, seizure_detected) ==
  /\ r.t64 >= clock
  /\ IF image = "undecodable"
     THEN /\ call' = [NoCall("process_image") EXCEPT
                        !.result = fallback_result("error_fallback", Tenths(3),
                                                   seizure_detected)]
          /\ UNCHANGED <<clock, det, delivered, run, alerted_at, backend_vars>>
     ELSE IF image = None
     THEN /\ call' = [NoCall("process_image") EXCEPT
                        !.result = fallback_result("fallback_detection", Tenths(5),
                                                   seizure_detected)]
          /\ UNCHANGED <<clock, det, delivered, run, alerted_at, backend_vars>>
     ELSE HandleResult(image, r, log_ok, emit_ok, seizure_detected,
                       analyze_movement(det, image, r))
  /\ analysis' = NoAnalysis

\* process_image called for a single source of frames
ProcessImage(image, r, log_ok, emit_ok, seizure_detected) ==
  /\ process_image(image, r, log_ok, emit_ok, seizure_detected)
  /\ UNCHANGED clients

(***************************************************************************)
(* Spec: frames stream into one detector through its public methods while  *)
(* the clock runs.                                                         *)
(***************************************************************************)
Next ==
  \/ Tick
  \/ \E keypoints_data \in StreamFrames \cup {None, NoKeypoints} :
       \E r \in DetectorReads(clock) : AnalyzeMovement(keypoints_data, r)
  \/ ResetState

Spec == Init /\ [][Next]_vars

(***************************************************************************)
(* SpecFrames: every frame against every previous frame, the gate open.    *)
(***************************************************************************)
NextFrames == \E frame \in Frames : AnalyzeFrame(frame)

SpecFrames == Init /\ [][NextFrames]_vars

(***************************************************************************)
(* SpecE2E: the end-to-end immobility scenario.  A subject standing still  *)
(* is filmed from StartTime on; the same pose arrives once a second,       *)
(* through process_image with working sinks, until the episode that began  *)
(* with the second frame has lasted EpisodeSeconds.                        *)
(***************************************************************************)
EpisodeSeconds == immobility_duration_threshold + 1

\* full frames of a standing subject
UprightFrames == {"upright", "drift1", "drift2", "twitch", "edge", "wave", "flail",
                  "boundary"}

\* the time samples of the second and of the last frame of the scenario
E2ESecondAt == StartTime + 1
E2ELastAt == E2ESecondAt + EpisodeSeconds

E2EFirstFrame ==
  /\ delivered = None
  /\ \E image \in UprightFrames :
       ProcessImage(image, SteadyReads(clock), TRUE, TRUE, FALSE)

E2ESameFrame ==
  /\ delivered # None
  /\ clock + 1 <= Min(E2ELastAt, MaxTime)
  /\ ProcessImage(delivered, SteadyReads(clock + 1), TRUE, TRUE, FALSE)

NextE2E == E2EFirstFrame \/ E2ESameFrame

SpecE2E == Init /\ [][NextE2E]_vars

(***************************************************************************)
(* SpecBackend: images arrive at process_image while the clock runs; the   *)
(* log file and the socket may each fail on any alert.  One clock value    *)
(* per call.                                                               *)
(***************************************************************************)
BackendImages == {"upright", "twitch", "collapsed", None, "undecodable"}

BackendTick == clock < Min(StartTime + BackendHorizon, MaxTime) /\ Tick

ProcessAnyImage ==
  \E image \in BackendImages, log_ok \in BOOLEAN, emit_ok \in BOOLEAN,
     seizure_detected \in BOOLEAN :
       ProcessImage(image, SteadyReads(clock), log_ok, emit_ok, seizure_detected)

NextBackend == BackendTick \/ ProcessAnyImage

SpecBackend == Init /\ [][NextBackend]_vars

(***************************************************************************)
(* SpecFrozen: a subject is filmed for FrozenHorizon seconds, long enough  *)
(* for an immobility episode to exceed immobility_duration_threshold and   *)
(* for the cooldown of its alert to run out.  Frames arrive through        *)
(* process_image with working sinks, one clock value per call.             *)
(***************************************************************************)
FrozenLastAt == StartTime + FrozenHorizon

FrozenFrames == {"upright", "drift1", "twitch", "collapsed"}

FrozenTick == TickUntil(FrozenLastAt)

FrozenImage ==
  \E image \in FrozenFrames :
     ProcessImage(image, SteadyReads(clock), TRUE, TRUE, FALSE)

NextFrozen == FrozenTick \/ FrozenImage

SpecFrozen == Init /\ [][NextFrozen]_vars

(***************************************************************************)
(* SpecServer: the routes of app.py around the one module-level backend.   *)
(* Connected clients post frames to /detect or send frame_data events, and *)
(* start and stop monitoring, in any order while the clock runs; the sinks *)
(* work and there is one clock value per call.                             *)
(***************************************************************************)
ServerImages == {"upright", "collapsed", None}

Routes == {"/detect", "frame_data"}

\* the detector a client would have to itself, after it is passed image
OwnDetector(self, image, r) ==
  IF image = None THEN self ELSE analyze_movement(self, image, r).self

\* detect() and handle_frame_data(data): both hand the image to
\* backend.process_image, whoever sent it
ClientFrame(client, via, image) ==
  /\ process_image(image, SteadyReads(clock), TRUE, TRUE, FALSE)
  /\ clients' = [sender |-> client, via |-> via,
                 own |-> [clients.own EXCEPT
                            ![client] = OwnDetector(clients.own[client], image,
                                                    SteadyReads(clock))]]

\* backend.start_monitoring(), from /api/start or the start_monitoring event
StartMonitoring ==
  /\ is_monitoring' = (IF ~is_monitoring THEN TRUE ELSE is_monitoring)
  /\ call' = NoCall("start_monitoring")
  /\ UNCHANGED <<clock, det, analysis, delivered, run, alerted_at,
                 alert_count, event_log, emitted, clients>>

\* backend.stop_monitoring(), from /api/stop or the stop_monitoring event
StopMonitoring ==
  /\ is_monitoring' = (IF is_monitoring THEN FALSE ELSE is_monitoring)
  /\ call' = NoCall("stop_monitoring")
  /\ UNCHANGED <<clock, det, analysis, delivered, run, alerted_at,
                 alert_count, event_log, emitted, clients>>

NextServer ==
  \/ BackendTick
  \/ \E client \in Clients, via \in Routes, image \in ServerImages :
       ClientFrame(client, via, image)
  \/ StartMonitoring
  \/ StopMonitoring

SpecServer == Init /\ [][NextServer]_vars

(***************************************************************************)
(* SpecPatterns: _detect_seizure_patterns on its own, handed every         *)
(* velocity map over some of the first MaxParts important parts whose      *)
(* velocities are multiples of 40 pixels up to 40 * MaxSteps: values below *)
(* and above each velocity threshold of the table, and the threshold 80    *)
(* itself.                                                                 *)
(***************************************************************************)
PatternParts ==
  {important_parts[i] : i \in 1..Min(MaxParts, Len(important_parts))}

VelocityValues == {40 * k : k \in 0..MaxSteps}

DetectSeizurePatterns(velocities) ==
  /\ call.op = "init"
  /\ analysis' = [velocities |-> velocities,
                  detection_results |->
                    [seizure_patterns |-> _detect_seizure_patterns(velocities)]]
  /\ call' = NoCall("_detect_seizure_patterns")
  /\ UNCHANGED <<clock, det, delivered, run, alerted_at, backend_vars, clients>>

NextPatterns ==
  \E parts \in SUBSET PatternParts :
     \E velocities \in [parts -> VelocityValues] : DetectSeizurePatterns(velocities)

SpecPatterns == Init /\ [][NextPatterns]_vars

(***************************************************************************)
(* SpecArbiter: _determine_alert on its own, handed every combination of   *)
(* four analyzer results.  A result is detected or not and carries one of  *)
(* the confidences below (an undetected result may carry one too, as the   *)
(* fall analyzer's does); its reason names the analyzer it stands for.     *)
(***************************************************************************)
ArbiterConfidences == {0, Tenths(3), Tenths(8), Tenths(9)}

AnalyzerResults(type) ==
  {[detected |-> d, confidence |-> c, reason |-> type] :
     d \in BOOLEAN, c \in ArbiterConfidences}

DetermineAlert(detection_results) ==
  /\ call.op = "init"
  /\ analysis' = [velocities |-> EmptyMap, detection_results |-> detection_results]
  /\ call' = [NoCall("_determine_alert") EXCEPT
                !.result = _determine_alert(detection_results)]
  /\ UNCHANGED <<clock, det, delivered, run, alerted_at, backend_vars, clients>>

NextArbiter ==
  \E fall \in AnalyzerResults("fall"),
     rapid_movements \in AnalyzerResults("rapid_movements"),
     immobility \in AnalyzerResults("immobility"),
     patterns \in AnalyzerResults("seizure_patterns") :
       DetermineAlert(DetectionResults(fall, rapid_movements, immobility, patterns))

SpecArbiter == Init /\ [][NextArbiter]_vars

TypeOK ==
  /\ clock \in StartTime..(IF MaxTime > FrozenLastAt THEN MaxTime ELSE FrozenLastAt)
  /\ det.prev_keypoints \in Frames \cup {None}
  /\ det.immobility_start_time
       \in {NoTime} \cup StartTime..(IF MaxTime > FrozenLastAt THEN MaxTime ELSE FrozenLastAt)
  /\ det.immobility_detected \in BOOLEAN
  /\ det.last_alert_time
       \in {0} \cup StartTime..(IF MaxTime > FrozenLastAt THEN MaxTime ELSE FrozenLastAt)

(***************************************************************************)
(* Properties.                                                             *)
(***************************************************************************)
\* the last step was a call of analyze_movement with a pose
PoseCall(c) == c.op = "analyze_movement" /\ ~AbsentPose(c.keypoints_data)

\* C1 (Spec): cooldown.  When a call sampled at time T has returned
\* alert=true (T the latest such call), a later call with a pose sampled
\* strictly inside (T, T + alert_cooldown) returns alert=false, and a call
\* sampled at or after T + alert_cooldown passes the gate: its analyzers run
\* and it returns alert=true exactly when one of them reports detected=true.
C1_Cooldown ==
  [][ (PoseCall(call') /\ alerted_at # NoTime)
      => /\ (call'.current_time > alerted_at
             /\ call'.current_time < alerted_at + alert_cooldown)
              => ~call'.result.alert
         /\ call'.current_time >= alerted_at + alert_cooldown
              => (call'.evaluated /\ (call'.result.alert <=> call'.detected # {})) ]_vars

\* a frame showing a fall is passed inside the cooldown and returns no alert
C1_Witness ==
  /\ PoseCall(call)
  /\ call.keypoints_data = "collapsed"
  /\ alerted_at # NoTime
  /\ call.current_time > alerted_at
  /\ call.current_time < alerted_at + alert_cooldown
  /\ ~call.result.alert

\* C2 (SpecFrames): every result of the four analyzers with detected=false
\* has confidence 0.
C2_UndetectedHasZeroConfidence ==
  \A t \in DOMAIN analysis.detection_results :
     ~analysis.detection_results[t].detected
       => analysis.detection_results[t].confidence = 0

\* the geometry of the fall boundary, on the raw pixel rows of a frame
HasFallParts(k) == required_parts \subseteq DOMAIN k

HipRows(k) == k["left_hip"].y + k["right_hip"].y

AnkleRows(k) == k["left_ankle"].y + k["right_ankle"].y

WiderThanTall(k) ==
  2 * Abs(AnkleRows(k) - HipRows(k)) > 3 * Abs(HipRows(k) - 2 * k["nose"].y)

HeadBelowHips(k) == 2 * k["nose"].y > HipRows(k)

\* the frame of the last call is horizontal only, or horizontal and low
Geometry(k) ==
  IF ~HasFallParts(k) THEN "incomplete"
  ELSE IF WiderThanTall(k) /\ ~HeadBelowHips(k) THEN "horizontal_only"
  ELSE IF WiderThanTall(k) /\ HeadBelowHips(k) THEN "horizontal_low"
  ELSE "other"

\* C3 (SpecFrames): fall boundary.  A frame that is horizontal only gets
\* confidence 0.6 and detected=false; a frame that is horizontal with the head
\* below the hips gets confidence 0.8 and detected=true.
C3_FallBoundary ==
  call.evaluated
    => LET fall == analysis.detection_results.fall
           geometry == Geometry(Keypoints(call.keypoints_data))
       IN /\ geometry = "horizontal_only"
               => (~fall.detected /\ fall.confidence = Tenths(6))
          /\ geometry = "horizontal_low"
               => (fall.detected /\ fall.confidence = Tenths(8))

\* a horizontal-only frame was analyzed: confidence 0.6, not detected
C3_Witness ==
  /\ call.evaluated
  /\ call.keypoints_data = "lying"
  /\ Geometry(FrameLying) = "horizontal_only"
  /\ ~analysis.detection_results.fall.detected
  /\ analysis.detection_results.fall.confidence = Tenths(6)

\* C4 (Spec): immobility onset.  In a run where every frame after the first
\* moved less than immobility_threshold on average against the frame before
\* it, at increasing times, an evaluated frame whose time sample lies more
\* than immobility_duration_threshold after the start of the running timer is
\* reported detected=true with confidence 0.8, and no frame is reported
\* detected before the time elapsed since the timer started exceeds the
\* threshold.
C4_ImmobilityOnset ==
  [][ (PoseCall(call') /\ call'.evaluated /\ run'.still /\ det.immobility_detected)
      => /\ call'.current_time - det.immobility_start_time > immobility_duration_threshold
              => (call'.immobility.detected /\ call'.immobility.confidence = Tenths(8))
         /\ call'.immobility.detected
              => call'.checked_at - det.immobility_start_time
                   > immobility_duration_threshold ]_vars

\* C5 (Spec): a single mobile frame cancels the episode.  After every call
\* with a pose whose average displacement against the pose delivered before
\* it is at or above immobility_threshold, the immobility timer is cleared and
\* inactive, the cooldown included.
C5_MobileFrameCancels ==
  [][ (PoseCall(call') /\ delivered # None
       /\ MobileAgainst(delivered, call'.keypoints_data))
      => (det'.immobility_start_time = NoTime /\ ~det'.immobility_detected) ]_vars

\* C6 (SpecE2E): the end-to-end scenario.  No frame before the last returns
\* an alert or writes to the log; the last frame, EpisodeSeconds after the
\* second, returns alert=true of type immobility with confidence 0.8, and the
\* log then holds exactly one line (one alert counted, one notification).
C6_EndToEnd ==
  IF call.op = "process_image" /\ call.current_time = E2ELastAt
  THEN /\ call.result.alert
       /\ call.result.type = "immobility"
       /\ call.result.confidence = Tenths(8)
       /\ Len(event_log) = 1
       /\ event_log[1][2] = "immobility"
       /\ alert_count = 1
       /\ Len(emitted) = 1
  ELSE /\ ~call.result.alert
       /\ event_log = << >>
       /\ alert_count = 0

\* the frame that crosses the threshold has been processed and logged
C6_Witness ==
  /\ call.op = "process_image"
  /\ call.current_time = E2ELastAt
  /\ call.current_time - E2ESecondAt > immobility_duration_threshold
  /\ Len(event_log) = 1

\* the patterns that match a velocity map, and the best score among them
Matching(velocities) ==
  {i \in 1..Len(seizure_patterns) :
     /\ DOMAIN velocities # {}
     /\ _calculate_pattern_consistency(velocities, seizure_patterns[i])
          > seizure_patterns[i].pattern_threshold}

TopScoring(velocities) ==
  {i \in Matching(velocities) :
     \A j \in Matching(velocities) :
        _calculate_pattern_consistency(velocities, seizure_patterns[j])
          <= _calculate_pattern_consistency(velocities, seizure_patterns[i])}

\* C7 (SpecFrames): pattern tie-break.  When two or more matching patterns
\* share the greatest consistency score, the pattern reported is the one
\* declared first among them.
C7_PatternTieBreak ==
  (call.evaluated /\ Cardinality(TopScoring(analysis.velocities)) >= 2)
    => LET first == CHOOSE i \in TopScoring(analysis.velocities) :
                      \A j \in TopScoring(analysis.velocities) : i <= j
           reported == analysis.detection_results.seizure_patterns
       IN /\ reported.detected
          /\ reported.pattern_type = seizure_patterns[first].description
          /\ reported.confidence
               = _calculate_pattern_consistency(analysis.velocities,
                                                seizure_patterns[first])

\* tonic_clonic and myoclonic tie at the top and tonic_clonic is reported
C7_Witness ==
  /\ call.evaluated
  /\ {1, 2} \subseteq TopScoring(analysis.velocities)
  /\ analysis.detection_results.seizure_patterns.pattern_type
       = seizure_patterns[1].description

C9_TimerIffFlag ==
  (det.immobility_start_time # NoTime) <=> det.immobility_detected

\* the timer runs after a call
C9_Witness ==
  PoseCall(call) /\ det.immobility_detected /\ det.immobility_start_time # NoTime

\* C10 (Spec): absent frame.  A call with None, or with data that has no
\* 'keypoints', returns the canonical no-alert decision and leaves
\* prev_keypoints, last_alert_time, immobility_start_time and
\* immobility_detected unchanged.
C10_AbsentFrame ==
  [][ (call'.op = "analyze_movement" /\ AbsentPose(call'.keypoints_data))
      => /\ call'.result = _create_no_alert_result
         /\ det'.prev_keypoints = det.prev_keypoints
         /\ det'.last_alert_time = det.last_alert_time
         /\ det'.immobility_start_time = det.immobility_start_time
         /\ det'.immobility_detected = det.immobility_detected ]_vars

\* an absent frame was passed while a frame, a timer and an alert time are held
C10_Witness ==
  /\ call.op = "analyze_movement"
  /\ call.keypoints_data = NoKeypoints
  /\ det.prev_keypoints # None
  /\ det.immobility_detected
  /\ det.last_alert_time # 0
  /\ call.result = _create_no_alert_result

\* C11 (Spec): reset equivalence.  After reset_state, whatever calls came
\* before it, every field of the detector (previous frame, immobility timer
\* and flag, last_alert_time, both history buffers) has the value a newly
\* constructed detector has; analyze_movement being a function of these
\* fields, the frame and the clock, both then decide alike.
C11_ResetEquivalence ==
  [][ call'.op = "reset_state" => det' = NewDetector ]_vars

\* reset_state was called on a detector that was no longer as constructed
C11_Witness ==
  /\ call.op = "reset_state"
  /\ ~call.from_new
  /\ det = NewDetector

\* C12 (Spec): previous-frame tracking never stalls.  After every call of
\* analyze_movement with a pose, the calls returned by the cooldown gate
\* included, prev_keypoints is the frame passed to that call.
C12_PreviousFrameTracked ==
  [][ PoseCall(call') => det'.prev_keypoints = call'.keypoints_data ]_vars

\* C16 (Spec): single time sample.  Within one call that reaches the
\* analyzers the clock value compared against the duration threshold, and
\* the value a timer started by the call is set to, are the time sample of
\* the cooldown check.
C16_SingleTimeSample ==
  [][ (PoseCall(call') /\ call'.evaluated)
      => /\ call'.checked_at \in {NoTime, call'.current_time}
         /\ (~det.immobility_detected /\ det'.immobility_detected)
              => det'.immobility_start_time = call'.current_time ]_vars

\* C17 (Spec): determinism.  Whatever a call of analyze_movement with a pose
\* returned and left as the detector's state, any other detector in the same
\* state before the call, given the same frame at the same time sample,
\* returns the same decision and ends in the same state.
C17_Determinism ==
  [][ PoseCall(call')
      => \A r \in Reads(call'.current_time) :
            /\ analyze_movement(det, call'.keypoints_data, r).result = call'.result
            /\ analyze_movement(det, call'.keypoints_data, r).self = det' ]_vars

\* C13 (SpecArbiter): arbiter reduction.  For every combination of the four
\* analyzer results, _determine_alert returns alert=true iff at least one of
\* them has detected=true, and then the type, confidence and description of
\* the detected result of highest confidence, the earlier one in the order
\* fall, rapid_movements, immobility, seizure_patterns on equal confidences.
C13_ArbiterReduction ==
  call.op = "_determine_alert"
    => LET order == << "fall", "rapid_movements", "immobility", "seizure_patterns" >>
           results == analysis.detection_results
           detected == {i \in 1..4 : results[order[i]].detected}
       IN IF detected = {}
          THEN ~call.result.alert
          ELSE LET best == CHOOSE i \in detected :
                             \A j \in detected :
                                \/ results[order[j]].confidence < results[order[i]].confidence
                                \/ /\ results[order[j]].confidence = results[order[i]].confidence
                                   /\ i <= j
               IN /\ call.result.alert
                  /\ call.result.type = order[best]
                  /\ call.result.confidence = results[order[best]].confidence
                  /\ call.result.description = results[order[best]].reason

\* fall and immobility are both detected at the top confidence, next to an
\* undetected result of higher confidence, and fall is returned
C13_Witness ==
  /\ call.op = "_determine_alert"
  /\ analysis.detection_results.fall.detected
  /\ analysis.detection_results.immobility.detected
  /\ analysis.detection_results.fall.confidence = Tenths(8)
  /\ analysis.detection_results.immobility.confidence = Tenths(8)
  /\ ~analysis.detection_results.rapid_movements.detected
  /\ analysis.detection_results.rapid_movements.confidence = Tenths(9)
  /\ ~analysis.detection_results.seizure_patterns.detected
  /\ call.result.type = "fall"

\* the last step was a call of process_image in which the detector alerted
AlertHandled(c) == c.op = "process_image" /\ c.detected # {}

\* C14 (SpecBackend): log-sink failure.  When the write to the event log
\* fails while an alert is handled and the socket works, the log is left as
\* it was, the alert is emitted, process_image returns the decision the
\* detector computed, and the detector and the alert count are as after a
\* handled alert, so that later frames are processed as usual.
C14_LogSinkFailure ==
  [][ (AlertHandled(call') /\ ~call'.sinks.log /\ call'.sinks.emit)
      => /\ event_log' = event_log
         /\ emitted' = Append(emitted,
                              alert_data_of(analyze_movement(det, call'.keypoints_data,
                                              SteadyReads(call'.current_time)).result,
                                            call'.current_time))
         /\ call'.result = analyze_movement(det, call'.keypoints_data,
                                            SteadyReads(call'.current_time)).result
         /\ call'.result.alert
         /\ det' = analyze_movement(det, call'.keypoints_data,
                                    SteadyReads(call'.current_time)).self
         /\ alert_count' = alert_count + 1 ]_vars

\* an alert went out on the socket while the write to the log failed, and a
\* later image was analyzed
C14_Witness ==
  /\ call.op = "process_image"
  /\ call.evaluated
  /\ alert_count = 1
  /\ event_log = << >>
  /\ Len(emitted) = 1
  /\ call.current_time > emitted[1].timestamp

\* C15 (SpecBackend): notification-sink failure.  When socketio.emit fails
\* while an alert is handled, process_image returns the decision the detector
\* computed for the frame.
C15_NotificationSinkFailure ==
  [][ (AlertHandled(call') /\ ~call'.sinks.emit)
      => call'.result = analyze_movement(det, call'.keypoints_data,
                                         SteadyReads(call'.current_time)).result ]_vars

\* C18 (Spec): well-formed decision.  Every decision analyze_movement returns
\* has alert=true iff its type is fall, rapid_movements, immobility or
\* seizure_patterns; with alert=false it is the decision of type 'none',
\* confidence 0 and description 'No abnormal movements detected'; and its
\* confidence lies between 0 and 1.
C18_WellFormedDecision ==
  call.op = "analyze_movement"
    => /\ call.result.alert
            <=> call.result.type \in {"fall", "rapid_movements", "immobility",
                                      "seizure_patterns"}
       /\ ~call.result.alert
            => call.result = [alert |-> FALSE, type |-> "none", confidence |-> 0,
                              description |-> "No abnormal movements detected"]
       /\ call.result.confidence >= 0
       /\ call.result.confidence <= ConfScale

\* a call returned by the cooldown gate, after an immobility alert
C18_Witness ==
  /\ PoseCall(call)
  /\ ~call.evaluated
  /\ ~call.result.alert
  /\ det.immobility_detected
  /\ det.last_alert_time = alerted_at
  /\ alerted_at - det.immobility_start_time > immobility_duration_threshold

\* C19 (SpecFrames): velocity map domain.  The velocity map of an evaluated
\* frame has an entry for exactly the parts (of the seventeen part names)
\* present in both the frame and the previous frame, and is empty when
\* there is no previous frame.
C19_VelocityMapDomain ==
  [][ (PoseCall(call') /\ call'.evaluated)
        => DOMAIN analysis'.velocities
             = IF det.prev_keypoints = None THEN {}
               ELSE CommonParts(Keypoints(call'.keypoints_data),
                                Keypoints(det.prev_keypoints)) ]_vars

\* C20 (SpecFrames): pattern matching rule.  For a non-empty velocity map a
\* pattern matches iff 0.6 * (fraction of parts with a velocity strictly
\* above the pattern's velocity threshold) + 0.4 * min(average velocity /
\* velocity threshold, 1) is strictly greater than the pattern's consistency
\* threshold; with an empty velocity map no pattern matches and the result
\* is detected = false.  (The inequality is stated in tenths, multiplied by
\* the number of parts and by the velocity threshold.)
C20_PatternMatchingRule ==
  call.evaluated
    => LET velocities == analysis.velocities
           reported == analysis.detection_results.seizure_patterns
           n == Cardinality(DOMAIN velocities)
           total == SumOver(velocities, DOMAIN velocities)
           claimed == {i \in 1..Len(seizure_patterns) :
                         LET thr == seizure_patterns[i].velocity_threshold
                             above == Cardinality({p \in DOMAIN velocities :
                                                     velocities[p] > thr})
                             tenths == (10 * seizure_patterns[i].pattern_threshold)
                                         \div ConfScale
                         IN /\ n > 0
                            /\ 6 * above * thr + 4 * Min(total, n * thr)
                                 > tenths * n * thr}
       IN /\ \A i \in 1..Len(seizure_patterns) :
               _analyze_seizure_pattern(velocities, seizure_patterns[i]).detected
                 <=> i \in claimed
          /\ reported.detected <=> claimed # {}
          /\ n = 0 => ~reported.detected

\* a pattern whose consistency equals its threshold does not match, while
\* another pattern matches the same velocity map
C20_Witness ==
  /\ call.evaluated
  /\ analysis.detection_results.seizure_patterns.detected
  /\ \E i \in 1..Len(seizure_patterns) :
        /\ _calculate_pattern_consistency(analysis.velocities, seizure_patterns[i])
             = seizure_patterns[i].pattern_threshold
        /\ ~_analyze_seizure_pattern(analysis.velocities, seizure_patterns[i]).detected

\* C21 (Spec): the cooldown gate commits nothing.  A call with a pose whose
\* time sample is less than alert_cooldown after last_alert_time returns the
\* canonical no-alert decision and leaves last_alert_time,
\* immobility_start_time and immobility_detected as they were before the
\* call, whatever the frame contains.
C21_GateCommitsNothing ==
  [][ (PoseCall(call')
       /\ call'.current_time - det.last_alert_time < alert_cooldown)
        => /\ call'.result = [alert |-> FALSE, type |-> "none", confidence |-> 0,
                              description |-> "No abnormal movements detected"]
           /\ det'.last_alert_time = det.last_alert_time
           /\ det'.immobility_start_time = det.immobility_start_time
           /\ det'.immobility_detected = det.immobility_detected ]_vars

\* a suppressed call whose frame moved enough to end the immobility episode
\* in progress, had it been evaluated
C21_Witness ==
  /\ PoseCall(call)
  /\ call.current_time - det.last_alert_time < alert_cooldown
  /\ det.immobility_detected
  /\ det.immobility_start_time # NoTime
  /\ MobileAgainst(det.prev_keypoints, call.keypoints_data)

\* C22 (SpecFrozen): the frozen state keeps alerting.  Once an immobility
\* episode has exceeded immobility_duration_threshold and alerted, every
\* later evaluated frame whose average movement (against the detector's
\* previous frame) is still below immobility_threshold again yields an
\* immobility result with detected=true and confidence 0.8, and the call
\* returns alert=true: the detection is not one-shot.
C22_FrozenKeepsAlerting ==
  [][ (/\ call'.op = "process_image"
       /\ call'.evaluated
       /\ det.immobility_detected
       /\ alerted_at # NoTime
       /\ alerted_at - det.immobility_start_time > immobility_duration_threshold
       /\ StillAgainst(det.prev_keypoints, call'.keypoints_data))
        => /\ call'.immobility.detected
           /\ call'.immobility.confidence = Tenths(8)
           /\ call'.result.alert
           /\ alert_count' = alert_count + 1 ]_vars

\* the same episode has alerted twice, the second time once the cooldown of
\* the first alert had run out
C22_Witness ==
  /\ call.op = "process_image"
  /\ call.immobility.detected
  /\ Len(event_log) = 2
  /\ event_log[1][2] = "immobility"
  /\ event_log[2][2] = "immobility"
  /\ event_log[2][1] >= event_log[1][1] + alert_cooldown
  /\ event_log[1][1] - det.immobility_start_time > immobility_duration_threshold

\* C23 (SpecServer): one detector per subject.  A frame a client submits,
\* through /detect or frame_data, is analysed against the state of that
\* client's frames alone: the previous frame, the cooldown clock and the
\* immobility timer the call starts from are those a detector fed only this
\* client's frames would hold.
C23_OneDetectorPerSubject ==
  [][ (call'.op = "process_image" /\ call'.keypoints_data # None)
        => /\ det.prev_keypoints = clients.own[clients'.sender].prev_keypoints
           /\ det.last_alert_time = clients.own[clients'.sender].last_alert_time
           /\ det.immobility_start_time
                = clients.own[clients'.sender].immobility_start_time
           /\ det.immobility_detected
                = clients.own[clients'.sender].immobility_detected ]_vars

\* C27 (SpecServer): the monitoring gate.  While is_monitoring is false (never
\* started, or stopped and not started again) a call of process_image handles
\* no alert (alert_count, the log and the notifications stay as they are) and
\* leaves the detector's state unchanged.
C27_MonitoringGate ==
  [][ (call'.op = "process_image" /\ ~is_monitoring)
        => /\ alert_count' = alert_count
           /\ event_log' = event_log
           /\ emitted' = emitted
           /\ det' = det ]_vars

\* C24 (SpecBackend): alert delivery.  For a call of process_image in which
\* the detector returned alert=true and both sinks accepted the alert, one
\* line <timestamp, alert_type, description> is appended to the log, one
\* notification carrying timestamp, alert_type, confidence and description
\* (the same timestamp, read during the call) is emitted, and alert_count
\* grows by one; when the detector returned alert=false, the log, the
\* notifications and alert_count stay as they are.
C24_AlertDelivery ==
  [][ (call'.op = "process_image" /\ call'.keypoints_data # None)
        => /\ (AlertHandled(call') /\ call'.sinks = WorkingSinks)
                => \E timestamp \in clock..clock' :
                      /\ event_log' = Append(event_log,
                                             << timestamp, call'.result.type,
                                                call'.result.description >>)
                      /\ emitted' = Append(emitted,
                                           [timestamp |-> timestamp,
                                            alert_type |-> call'.result.type,
                                            confidence |-> call'.result.confidence,
                                            description |-> call'.result.description])
                      /\ alert_count' = alert_count + 1
                      /\ call'.result.alert
           /\ ~AlertHandled(call')
                => /\ event_log' = event_log
                   /\ emitted' = emitted
                   /\ alert_count' = alert_count
                   /\ ~call'.result.alert ]_vars

\* a second alert has been delivered: two lines, two notifications, count 2
C24_Witness ==
  /\ AlertHandled(call)
  /\ call.sinks = WorkingSinks
  /\ alert_count = 2
  /\ Len(event_log) = 2
  /\ Len(emitted) = 2
  /\ event_log[2][2] = call.result.type

\* C25 (SpecBackend): no unaccounted alerts.  A call of process_image returns
\* alert=true only when the detector returned alert=true for that frame, and
\* alert_count grows by one exactly in the calls that return alert=true (so
\* that it always equals the number of results returned with alert=true); a
\* frame without a pose and a processing error return alert=false.
C25_NoUnaccountedAlerts ==
  [][ call'.op = "process_image"
        => /\ call'.result.alert => call'.detected # {}
           /\ alert_count' = alert_count + (IF call'.result.alert THEN 1 ELSE 0) ]_vars

\* C26 (Spec): first-frame alerts.  The first pose passed in after
\* construction or reset_state finds no previous frame and is evaluated; the
\* rapid-movement, immobility and seizure-pattern analyzers report
\* detected=false, the immobility timer is left as it was, and if the call
\* returns an alert its type is 'fall'.
C26_FirstFrameAlerts ==
  [][ (PoseCall(call') /\ delivered = None)
        => /\ det.prev_keypoints = None
           /\ call'.evaluated
           /\ call'.detected \subseteq {"fall"}
           /\ ~call'.immobility.detected
           /\ det'.immobility_start_time = det.immobility_start_time
           /\ det'.immobility_detected = det.immobility_detected
           /\ call'.result.alert => call'.result.type = "fall" ]_vars

\* the first frame passed to a detector as constructed (or as reset_state
\* leaves it) shows a fall, and the call alerts
C26_Witness ==
  /\ PoseCall(call)
  /\ call.from_new
  /\ alerted_at = call.current_time
  /\ call.current_time > StartTime
  /\ call.result.alert
  /\ call.result.type = "fall"

\* C28 (SpecPatterns): pattern dominance under the configured table.  For
\* every velocity map the consistency score of myoclonic does not exceed that
\* of tonic_clonic; when both patterns match, the pattern reported is not
\* myoclonic; and when myoclonic is reported, tonic_clonic and atonic both
\* fail their own consistency thresholds.
C28_PatternDominance ==
  call.op = "_detect_seizure_patterns"
    => LET velocities == analysis.velocities
           reported == analysis.detection_results.seizure_patterns
           myoclonic_reported ==
             /\ reported.detected
             /\ reported.pattern_type = seizure_patterns[2].description
       IN /\ seizure_patterns[1].name = "tonic_clonic"
          /\ seizure_patterns[2].name = "myoclonic"
          /\ seizure_patterns[3].name = "atonic"
          /\ _calculate_pattern_consistency(velocities, seizure_patterns[2])
               <= _calculate_pattern_consistency(velocities, seizure_patterns[1])
          /\ {1, 2} \subseteq Matching(velocities) => ~myoclonic_reported
          /\ myoclonic_reported
               => (1 \notin Matching(velocities) /\ 3 \notin Matching(velocities))

\* myoclonic is reported: it matches while tonic_clonic and atonic do not
C28_Witness ==
  /\ call.op = "_detect_seizure_patterns"
  /\ analysis.detection_results.seizure_patterns.detected
  /\ analysis.detection_results.seizure_patterns.pattern_type
       = seizure_patterns[2].description
  /\ Matching(analysis.velocities) = {2}

====
